---------------------------- MODULE Spec2Model ----------------------------
(***************************************************************************)
(* The notebooks of the unstructured-grid visualisation cookbook, as a     *)
(* Jupyter kernel executing their code cells one at a time.                *)
(*                                                                         *)
(*   overview            src/unnamed/part_000  (structured / unstructured) *)
(*   plot_api            src/unnamed/part_001  (Plotting API)              *)
(*   plot_api_v1         src/notebooks/03-uxarray-vis/01-plot-api.ipynb    *)
(*   xarray_to_uxarray   src/notebooks/03-uxarray-vis/002-xarray-to-...    *)
(*                                                                         *)
(* The kernel state is the namespace ns, numpy's global generator rng,     *)
(* HoloViews' current backend hvBackend, the files on disk, and the output *)
(* of the cell executed last (hvBefore is the backend that cell started    *)
(* with).  Coordinates are whole degrees; a bit generator of RngMod states *)
(* stands for numpy's.                                                     *)
(***************************************************************************)
EXTENDS Integers, Sequences, FiniteSets, TLC

VARIABLES nb, params, disk, ns, rng, hvBackend, hvBefore, last, out, err, topDown

vars == <<nb, params, disk, ns, rng, hvBackend, hvBefore, last, out, err, topDown>>

(***************************************************************************)
(* Bounds of the model.  The notebooks fix num_lat_points = 20,            *)
(* num_lon_points = 30 and num_points = 600; the model lets them range.    *)
(***************************************************************************)
MaxLatPoints == 3

MaxLonPoints == 3

MaxPoints == 4

MaxVars == 2

RngMod == 16

(***************************************************************************)
(* Program constants.                                                      *)
(***************************************************************************)
Seed == 42

Unbound == [t |-> "unbound"]

Module(m) == [t |-> "module", name |-> m]

IntVal(i) == [t |-> "int", v |-> i]

StrVal(s) == [t |-> "str", v |-> s]

Array(a) == [t |-> "ndarray", v |-> a]

Handle(h) == [t |-> "handle", of |-> h]

(***************************************************************************)
(* numpy's global generator: np.random.seed and np.random.uniform.         *)
(***************************************************************************)
RngNext(r) == (5 * r + 3) % RngMod

RECURSIVE RngStep(_, _)
RngStep(r, k) == IF k = 0 THEN r ELSE RngStep(RngNext(r), k - 1)

RngSeed(s) == s % RngMod

\* np.random.seed that leaves the generator as it was.
NpRandomSeedNoEffect(r, s) == r

\* np.random.seed(s), called on a generator in state r
NpRandomSeed(r, s) == RngSeed(s)

\* UniformDraw over the closed interval [low, high].
UniformDrawClosed(r, k, low, high) ==
    low + ((RngStep(r, k) + 1) * (high - low)) \div RngMod

\* The k-th draw after state r, scaled to [low, high).
UniformDraw(r, k, low, high) == low + (RngStep(r, k) * (high - low)) \div RngMod

\* np.random.uniform(low, high, size=n)
Uniform1D(r, low, high, n) == [i \in 1..n |-> UniformDraw(r, i, low, high)]


\* Uniform2D with the two sizes taken in the other order.
Uniform2DTransposed(r, low, high, rows, cols) ==
    [i \in 1..cols |-> [j \in 1..rows |->
        UniformDraw(r, (i - 1) * rows + j, low, high)]]

\* np.random.uniform(low, high, size=(rows, cols)), filled row by row
Uniform2D(r, low, high, rows, cols) ==
    [i \in 1..rows |-> [j \in 1..cols |->
        UniformDraw(r, (i - 1) * cols + j, low, high)]]

(***************************************************************************)
(* np.linspace(start, stop, num): num evenly spaced samples, the last one  *)
(* exactly stop; a single sample is start.                                 *)
(***************************************************************************)

\* Linspace with one sample too many.
LinspaceOneMore(start, stop, num) ==
    [i \in 1..(num + 1) |-> start + ((i - 1) * (stop - start)) \div num]

Linspace(start, stop, num) ==
    [i \in 1..num |->
        IF num = 1 THEN start
        ELSE start + ((i - 1) * (stop - start)) \div (num - 1)]

(***************************************************************************)
(* np.meshgrid(x, y) with the default indexing "xy": two arrays of shape   *)
(* (len(y), len(x)); the first repeats x along rows, the second y along    *)
(* columns.                                                                *)
(***************************************************************************)
Meshgrid(x, y) ==
    [xx |-> [i \in 1..Len(y) |-> [j \in 1..Len(x) |-> x[j]]],
     yy |-> [i \in 1..Len(y) |-> [j \in 1..Len(x) |-> y[i]]]]

\* The shape of a 2-D array held as a sequence of rows.
Shape2D(a) == <<Len(a), IF Len(a) = 0 THEN 0 ELSE Len(a[1])>>

(***************************************************************************)
(* matplotlib.tri.Triangulation(x, y): the nodes are the points given, in  *)
(* the order given; with no triangles passed, the triangles are a Delaunay *)
(* triangulation of them, each a triple of 0-based node indices.           *)
(***************************************************************************)
Cross(ax, ay, bx, by) == ax * by - ay * bx

\* Twice the signed area of the triangle of nodes i, j, k (1-based here).
Orient(x, y, i, j, k) ==
    Cross(x[j] - x[i], y[j] - y[i], x[k] - x[i], y[k] - y[i])

Sign(v) == IF v > 0 THEN 1 ELSE IF v < 0 THEN -1 ELSE 0

\* The sign of s1*c1 - s2*c2 + s3*c3, each product taken in two parts so
\* that no intermediate value leaves the 32-bit range.
SignOfSum(s1, c1, s2, c2, s3, c3) ==
    LET q == (s1 \div 1000) * c1 - (s2 \div 1000) * c2 + (s3 \div 1000) * c3
        r == (s1 % 1000) * c1 - (s2 % 1000) * c2 + (s3 % 1000) * c3
        qn == q + r \div 1000
        rn == r % 1000
    IN  IF qn # 0 THEN Sign(qn) ELSE Sign(rn)

\* The sign of the in-circle determinant of nodes i, j, k against node m.
InCircle(x, y, i, j, k, m) ==
    LET ax == x[i] - x[m]  ay == y[i] - y[m]
        bx == x[j] - x[m]  by == y[j] - y[m]
        cx == x[k] - x[m]  cy == y[k] - y[m]
    IN  SignOfSum(ax * ax + ay * ay, Cross(bx, by, cx, cy),
                  bx * bx + by * by, Cross(ax, ay, cx, cy),
                  cx * cx + cy * cy, Cross(ax, ay, bx, by))


\* Delaunay with 1-based node indices.
DelaunayOneBased(x, y) ==
    LET n == Len(x)
    IN  { t \in (1..n) \X (1..n) \X (1..n) :
            /\ t[1] < t[2] /\ t[2] < t[3]
            /\ Orient(x, y, t[1], t[2], t[3]) # 0
            /\ \A m \in (1..n) \ {t[1], t[2], t[3]} :
                  InCircle(x, y, t[1], t[2], t[3], m)
                    * Sign(Orient(x, y, t[1], t[2], t[3])) <= 0 }

\* Triples of nodes that are not collinear and whose circumcircle holds no
\* other node strictly inside.
Delaunay(x, y) ==
    LET n == Len(x)
    IN  { <<i - 1, j - 1, k - 1>> : <<i, j, k>> \in
            { t \in (1..n) \X (1..n) \X (1..n) :
                /\ t[1] < t[2] /\ t[2] < t[3]
                /\ Orient(x, y, t[1], t[2], t[3]) # 0
                /\ \A m \in (1..n) \ {t[1], t[2], t[3]} :
                      InCircle(x, y, t[1], t[2], t[3], m)
                        * Sign(Orient(x, y, t[1], t[2], t[3])) <= 0 } }


\* Triangulation with the two coordinate arrays exchanged.
TriangulationSwapped(x, y) ==
    [t |-> "Triangulation", x |-> y, y |-> x, triangles |-> Delaunay(y, x)]

Triangulation(x, y) ==
    [t |-> "Triangulation", x |-> x, y |-> y, triangles |-> Delaunay(x, y)]

(***************************************************************************)
(* xarray: a Dataset holds the size of each dimension and its variables;   *)
(* assigning a variable whose size along a known dimension differs, or     *)
(* whose dimension names do not match its rank, raises ValueError.         *)
(***************************************************************************)
EmptyDataset == [t |-> "Dataset", sizes |-> <<>>, vars |-> <<>>]

DsConflict(ds, dims, shape) ==
    \/ Len(dims) # Len(shape)
    \/ \E i \in 1..Len(dims) :
          dims[i] \in DOMAIN ds.sizes /\ ds.sizes[dims[i]] # shape[i]

\* ds[name] = (dims, data)
DsSetItem(ds, name, dims, data, shape) ==
    IF ds.t # "Dataset" \/ DsConflict(ds, dims, shape)
    THEN [t |-> "ValueError"]
    ELSE [t |-> "Dataset",
          sizes |-> [d \in DOMAIN ds.sizes \cup {dims[i] : i \in 1..Len(dims)} |->
                        IF \E i \in 1..Len(dims) : dims[i] = d
                        THEN shape[CHOOSE i \in 1..Len(dims) : dims[i] = d]
                        ELSE ds.sizes[d]],
          vars |-> [v \in DOMAIN ds.vars \cup {name} |->
                        IF v = name THEN [dims |-> dims, data |-> data]
                        ELSE ds.vars[v]]]

\* ds[name] = a 1-D array: a coordinate variable along the dimension name
DsSetCoord(ds, name, data) == DsSetItem(ds, name, <<name>>, data, <<Len(data)>>)

\* xr.DataArray(data, dims=dim, coords={dim: coord})
DataArray1D(data, dim, coord) ==
    IF Len(coord) # Len(data) THEN [t |-> "ValueError"]
    ELSE [t |-> "DataArray", dims |-> <<dim>>, data |-> data, coord |-> coord]

(***************************************************************************)
(* The kernel a cell runs on and leaves behind: namespace, generator,      *)
(* HoloViews backend, the figures the cell displays, the error it raised.  *)
(***************************************************************************)
Kernel(n, r, h) == [ns |-> n, rng |-> r, hv |-> h, figs |-> <<>>, err |-> "none"]

\* The names of b bound to its values, the others left as they are.
Bind(n, b) == [x \in DOMAIN n |-> IF x \in DOMAIN b THEN b[x] ELSE n[x]]

Raise(k, e) == [k EXCEPT !.err = e]

(***************************************************************************)
(* Overview notebook, the structured grid cell.                            *)
(***************************************************************************)
StructuredCell(k, p) ==
    LET lat_range == <<-90, 90>>
        lon_range == <<-180, 180>>
        num_lat_points == p.num_lat_points
        num_lon_points == p.num_lon_points
        lats == Linspace(lat_range[1], lat_range[2], num_lat_points)
        lons == Linspace(lon_range[1], lon_range[2], num_lon_points)
        mesh == Meshgrid(lons, lats)
        temperature_data ==
            Uniform2D(k.rng, 20, 30, num_lat_points, num_lon_points)
        rng1 == RngStep(k.rng, num_lat_points * num_lon_points)
        ds1 == DsSetItem(EmptyDataset, "temperature", <<"lat", "lon">>,
                         temperature_data, Shape2D(temperature_data))
        ds2 == IF ds1.t = "Dataset" THEN DsSetCoord(ds1, "lon", lons) ELSE ds1
        ds3 == IF ds2.t = "Dataset" THEN DsSetCoord(ds2, "lat", lats) ELSE ds2
        dsLast == IF ds1.t # "Dataset" THEN EmptyDataset
                  ELSE IF ds2.t # "Dataset" THEN ds1
                  ELSE IF ds3.t # "Dataset" THEN ds2 ELSE ds3
        b1 == "ccrs" :> Module("cartopy.crs") @@ "plt" :> Module("matplotlib.pyplot")
              @@ "np" :> Module("numpy") @@ "xr" :> Module("xarray")
              @@ "lat_range" :> Array(lat_range) @@ "lon_range" :> Array(lon_range)
              @@ "num_lat_points" :> IntVal(num_lat_points)
              @@ "num_lon_points" :> IntVal(num_lon_points)
              @@ "lats" :> Array(lats) @@ "lons" :> Array(lons)
              @@ "lons_grid" :> Array(mesh.xx) @@ "lats_grid" :> Array(mesh.yy)
              @@ "temperature_data" :> Array(temperature_data)
              @@ "ds" :> dsLast
        b2 == "fig" :> Handle("Figure") @@ "ax" :> Handle("GeoAxes")
              @@ "cs" :> Handle("QuadMesh") @@ "cbar" :> Handle("Colorbar")
        fig == [t |-> "figure", api |-> "matplotlib", kind |-> "pcolormesh",
                backend |-> "matplotlib",
                title |-> "Structured Grid Example",
                x |-> ds3.vars["lon"].data, y |-> ds3.vars["lat"].data,
                c |-> ds3.vars["temperature"].data]
    IN  IF ds3.t # "Dataset"
        THEN [k EXCEPT !.ns = Bind(k.ns, b1), !.rng = rng1, !.err = "ValueError"]
        ELSE [k EXCEPT !.ns = Bind(k.ns, b1 @@ b2), !.rng = rng1,
                       !.figs = <<fig>>]

(***************************************************************************)
(* Overview notebook, the unstructured grid cell.                          *)
(***************************************************************************)
UnstructuredCell(k, p) ==
    LET rng0 == NpRandomSeed(k.rng, Seed)
        num_points == p.num_points
        latitudes == Uniform1D(rng0, -90, 90, num_points)
        rng1 == RngStep(rng0, num_points)
        longitudes == Uniform1D(rng1, -180, 180, num_points)
        rng2 == RngStep(rng1, num_points)
        temperatures == Uniform1D(rng2, -30, 30, num_points)
        rng3 == RngStep(rng2, num_points)
        temperature_data ==
            DataArray1D(temperatures, "points", [i \in 1..num_points |-> i - 1])
        triang == Triangulation(longitudes, latitudes)
        triang_data == [i \in 1..Len(triang.x) |-> <<triang.x[i], triang.y[i]>>]
        b == "ccrs" :> Module("cartopy.crs") @@ "plt" :> Module("matplotlib.pyplot")
             @@ "mtri" :> Module("matplotlib.tri")
             @@ "np" :> Module("numpy") @@ "xr" :> Module("xarray")
             @@ "num_points" :> IntVal(num_points)
             @@ "latitudes" :> Array(latitudes) @@ "longitudes" :> Array(longitudes)
             @@ "temperatures" :> Array(temperatures)
             @@ "temperature_data" :> temperature_data
             @@ "triang" :> triang
             @@ "triang_data" :> [t |-> "DataArray", dims |-> <<"points", "coords">>,
                                  data |-> triang_data]
             @@ "fig" :> Handle("Figure") @@ "ax" :> Handle("GeoAxes")
             @@ "sc" :> Handle("PathCollection") @@ "cbar" :> Handle("Colorbar")
        fig == [t |-> "figure", api |-> "matplotlib", kind |-> "triplot+scatter",
                backend |-> "matplotlib",
                title |-> "Unstructured Grid Example",
                x |-> longitudes, y |-> latitudes, c |-> temperatures,
                triangles |-> triang.triangles]
    IN  [k EXCEPT !.ns = Bind(k.ns, b), !.rng = rng3, !.figs = <<fig>>]

(***************************************************************************)
(* The mesh files.  Their content is not part of the notebooks: the model  *)
(* draws it from small meshes (node coordinates, 0-based face-node         *)
(* connectivity) and from data files of 1..MaxVars variables, each mapped  *)
(* to the nodes, the edges or the faces of the mesh.                       *)
(***************************************************************************)
SquareMesh ==
    [node_lon |-> <<-10, 10, 10, -10>>, node_lat |-> <<-10, -10, 10, 10>>,
     face_nodes |-> << <<0, 1, 2>>, <<0, 2, 3>> >>]

DatelineMesh ==
    [node_lon |-> <<150, 170, -170, -170, 170, 150>>,
     node_lat |-> <<-10, -10, -10, 10, 10, 10>>,
     face_nodes |-> << <<0, 1, 4, 5>>, <<1, 2, 3, 4>> >>]

SampleMeshes == {SquareMesh, DatelineMesh}

\* The edges of a mesh: the pairs of nodes consecutive around some face.
EdgesOf(face_nodes) ==
    UNION { { {f[i], f[(i % Len(f)) + 1]} : i \in 1..Len(f) } :
            f \in {face_nodes[j] : j \in 1..Len(face_nodes)} }

ElementCount(g, elem) ==
    CASE elem = "nodes" -> Len(g.node_lon)
      [] elem = "faces" -> Len(g.face_nodes)
      [] elem = "edges" -> Cardinality(EdgesOf(g.face_nodes))

\* The element the v-th variable of a data file is mapped to.
ElementOf(v) == IF v % 3 = 1 THEN "faces" ELSE IF v % 3 = 2 THEN "nodes" ELSE "edges"

\* A data file of n variables over mesh g: the first has the name the
\* notebook selects; each holds one value per element it is mapped to.
DataFile(g, first, n) ==
    [kind |-> "data",
     vars |-> [v \in 1..n |->
        [name |-> IF v = 1 THEN first ELSE "var" \o ToString(v),
         elem |-> ElementOf(v),
         data |-> [i \in 1..ElementCount(g, ElementOf(v)) |-> 10 * i + v]]]]

GridFile(g) == [kind |-> "grid", mesh |-> g]

\* The structured file: one variable psi over (lat, lon).
StructuredFile ==
    [kind |-> "structured",
     lat |-> <<-45, 45>>, lon |-> <<-120, 0, 120>>,
     psi |-> << <<1, 2, 3>>, <<4, 5, 6>> >>]

(***************************************************************************)
(* uxarray's data structures.                                              *)
(***************************************************************************)
\* ux.open_grid(grid_filename)
OpenGrid(d, gridPath) ==
    IF gridPath \notin DOMAIN d \/ d[gridPath].kind # "grid"
    THEN [t |-> "FileNotFoundError"]
    ELSE [t |-> "Grid",
          node_lon |-> d[gridPath].mesh.node_lon,
          node_lat |-> d[gridPath].mesh.node_lat,
          face_node_connectivity |-> d[gridPath].mesh.face_nodes]

\* OpenDataset whose grid holds the nodes of the grid file, not its faces.
OpenDatasetNodesOnly(d, gridPath, dataPath) ==
    IF OpenGrid(d, gridPath).t # "Grid" \/ dataPath \notin DOMAIN d
       \/ d[dataPath].kind # "data"
    THEN [t |-> "FileNotFoundError"]
    ELSE [t |-> "UxDataset",
          uxgrid |-> [OpenGrid(d, gridPath) EXCEPT !.face_node_connectivity = <<>>],
          vars |-> d[dataPath].vars]

\* ux.open_dataset(grid_filename, data_filename)
OpenDataset(d, gridPath, dataPath) ==
    IF OpenGrid(d, gridPath).t # "Grid" \/ dataPath \notin DOMAIN d
       \/ d[dataPath].kind # "data"
    THEN [t |-> "FileNotFoundError"]
    ELSE [t |-> "UxDataset", uxgrid |-> OpenGrid(d, gridPath),
          vars |-> d[dataPath].vars]

\* xr.open_dataset(ds_path)
XrOpenDataset(d, path) ==
    IF path \notin DOMAIN d \/ d[path].kind # "structured"
    THEN [t |-> "FileNotFoundError"]
    ELSE [t |-> "xr.Dataset", lat |-> d[path].lat, lon |-> d[path].lon,
          psi |-> d[path].psi]


\* UxGetItem that hands out the variable without the dataset's grid.
UxGetItemUnlinked(uxds, name) ==
    IF \E v \in DOMAIN uxds.vars : uxds.vars[v].name = name
    THEN LET v == CHOOSE v \in DOMAIN uxds.vars : uxds.vars[v].name = name
         IN  [t |-> "UxDataArray",
              uxgrid |-> [t |-> "Grid", node_lon |-> <<>>, node_lat |-> <<>>,
                          face_node_connectivity |-> <<>>],
              name |-> name,
              elem |-> uxds.vars[v].elem, data |-> uxds.vars[v].data]
    ELSE [t |-> "KeyError"]

\* uxds[name]: the variable, linked to the dataset's grid
UxGetItem(uxds, name) ==
    IF \E v \in DOMAIN uxds.vars : uxds.vars[v].name = name
    THEN LET v == CHOOSE v \in DOMAIN uxds.vars : uxds.vars[v].name = name
         IN  [t |-> "UxDataArray", uxgrid |-> uxds.uxgrid, name |-> name,
              elem |-> uxds.vars[v].elem, data |-> uxds.vars[v].data]
    ELSE [t |-> "KeyError"]

\* xrds[name]
XrGetItem(xrds, name) ==
    IF name = "psi"
    THEN [t |-> "xr.DataArray", name |-> name, lat |-> xrds.lat,
          lon |-> xrds.lon, data |-> xrds.psi]
    ELSE [t |-> "KeyError"]

\* The faces (0-based) of a grid, and those that straddle the antimeridian:
\* their nodes' longitudes span more than 180 degrees.
FaceIndices(g) == {i - 1 : i \in 1..Len(g.face_node_connectivity)}

SetMax(S) == CHOOSE a \in S : \A b \in S : b <= a

SetMin(S) == CHOOSE a \in S : \A b \in S : a <= b

FaceLons(g, f) ==
    LET nodes == g.face_node_connectivity[f + 1]
    IN  {g.node_lon[nodes[i] + 1] : i \in 1..Len(nodes)}

AntimeridianFaces(g) ==
    {f \in FaceIndices(g) : SetMax(FaceLons(g, f)) - SetMin(FaceLons(g, f)) > 180}

(***************************************************************************)
(* The plotting accessors.  A call's backend is its backend argument, and  *)
(* bokeh without one; a UxDataArray plot leaves out the faces that cross   *)
(* the antimeridian unless exclude_antimeridian=False.                     *)
(***************************************************************************)
BackendOf(kw) == IF "backend" \in DOMAIN kw THEN kw.backend ELSE "bokeh"

ExcludeAntimeridian(kw) ==
    IF "exclude_antimeridian" \in DOMAIN kw THEN kw.exclude_antimeridian ELSE TRUE

\* RenderedFaces that ignores exclude_antimeridian.
RenderedFacesIgnoringFlag(g, kw) == FaceIndices(g)

RenderedFaces(g, kw) ==
    IF ExcludeAntimeridian(kw) THEN FaceIndices(g) \ AntimeridianFaces(g)
    ELSE FaceIndices(g)


\* GridPlot that refuses a grid without data.
GridPlotNeedsData(g, kw) == [t |-> "ValueError"]

\* Grid.plot(**kw): the borders of each of the faces
GridPlot(g, kw) ==
    [t |-> "figure", api |-> "uxarray", kind |-> "grid.borders",
     backend |-> BackendOf(kw), kw |-> kw, grid |-> g,
     edges |-> EdgesOf(g.face_node_connectivity)]

\* Grid.plot.nodes(**kw)
GridPlotNodes(g, kw) ==
    [t |-> "figure", api |-> "uxarray", kind |-> "grid.nodes",
     backend |-> BackendOf(kw), kw |-> kw, grid |-> g,
     nodes |-> {i - 1 : i \in 1..Len(g.node_lon)}]

\* UxDataArray.plot(**kw): the method is chosen from the element the data
\* is mapped to and the number of elements
DataArrayPlot(da, kw) ==
    [t |-> "figure", api |-> "uxarray", kind |-> "dataarray.default",
     backend |-> BackendOf(kw), kw |-> kw, grid |-> da.uxgrid,
     name |-> da.name, elem |-> da.elem, n_elem |-> Len(da.data),
     faces |-> RenderedFaces(da.uxgrid, kw), data |-> da.data]

\* UxDataArray.plot.polygons(**kw)
DataArrayPolygons(da, kw) ==
    [t |-> "figure", api |-> "uxarray", kind |-> "dataarray.polygons",
     backend |-> BackendOf(kw), kw |-> kw, grid |-> da.uxgrid,
     name |-> da.name, elem |-> da.elem, n_elem |-> Len(da.data),
     faces |-> RenderedFaces(da.uxgrid, kw), data |-> da.data]

\* UxDataArray.plot.points(**kw)
DataArrayPoints(da, kw) ==
    [t |-> "figure", api |-> "uxarray", kind |-> "dataarray.points",
     backend |-> BackendOf(kw), kw |-> kw, grid |-> da.uxgrid,
     name |-> da.name, elem |-> da.elem, n_elem |-> Len(da.data),
     faces |-> {}, data |-> da.data]


\* DatasetPlot that plots the first variable of the dataset.
DatasetPlotFirstVariable(uxds, kw) ==
    DataArrayPlot(UxGetItem(uxds, uxds.vars[1].name), kw)

\* UxDataset.plot(): not supported, raises
DatasetPlot(uxds, kw) == [t |-> "ValueError"]

\* xarray's DataArray.plot(**kw), drawn with matplotlib
XrPlot(da, kw) ==
    [t |-> "figure", api |-> "xarray", kind |-> "xr.pcolormesh",
     backend |-> "matplotlib", kw |-> kw, name |-> da.name, data |-> da.data]

\* xrds.hvplot(**kw), drawn with HoloViews' current backend; the accessor
\* exists once hvplot.xarray is imported
HvPlot(xrds, kw, k) ==
    IF k.ns["hvplot"].t = "unbound"
    THEN [t |-> "AttributeError"]
    ELSE [t |-> "figure", api |-> "hvplot", kind |-> "hvplot",
          backend |-> k.hv, kw |-> kw, name |-> "psi", data |-> xrds.psi]

\* The plotting method of an object, applied.
CallPlot(obj, method, kw, k) ==
    CASE obj.t = "Grid" /\ method = "plot" -> GridPlot(obj, kw)
      [] obj.t = "Grid" /\ method = "plot.nodes" -> GridPlotNodes(obj, kw)
      [] obj.t = "UxDataArray" /\ method = "plot" -> DataArrayPlot(obj, kw)
      [] obj.t = "UxDataArray" /\ method = "plot.polygons" ->
            DataArrayPolygons(obj, kw)
      [] obj.t = "UxDataArray" /\ method = "plot.points" -> DataArrayPoints(obj, kw)
      [] obj.t = "UxDataset" /\ method = "plot" -> DatasetPlot(obj, kw)
      [] obj.t = "xr.DataArray" /\ method = "plot" -> XrPlot(obj, kw)
      [] obj.t = "xr.Dataset" /\ method = "hvplot" -> HvPlot(obj, kw, k)
      [] OTHER -> [t |-> "AttributeError"]

\* The receiver of a call: a name, its uxgrid attribute, or an item of it.
EvalRecv(recv, k) ==
    LET base == k.ns[recv.base]
    IN  IF recv.attr = "uxgrid" THEN base.uxgrid
        ELSE IF recv.item = "" THEN base
        ELSE IF base.t = "UxDataset" THEN UxGetItem(base, recv.item)
        ELSE IF base.t = "xr.Dataset" THEN XrGetItem(base, recv.item)
        ELSE [t |-> "TypeError"]

\* The keyword arguments of a call, **kwfrom unpacked into them.
EvalKw(call, k) ==
    IF call.kwfrom = "" THEN call.kw ELSE call.kw @@ k.ns[call.kwfrom].v


\* PlotCall that drops the faces it left out from the dataset's grid.
PlotCallPruning(call, k, libSelects) ==
    LET obj == EvalRecv(call.recv, k)
        fig == IF obj.t \in {"KeyError", "TypeError"} THEN obj
               ELSE CallPlot(obj, call.method, EvalKw(call, k), k)
        k1 == IF fig.t = "figure" /\ fig.api = "uxarray" /\ libSelects
              THEN [k EXCEPT !.hv = fig.backend] ELSE k
        Kept(f) ==
            LET lons == {obj.uxgrid.node_lon[f[i] + 1] : i \in 1..Len(f)}
            IN  ExcludeAntimeridian(fig.kw) => SetMax(lons) - SetMin(lons) <= 180
    IN  [fig |-> fig,
         k |-> IF fig.t = "figure" /\ obj.t = "UxDataArray"
               THEN [k1 EXCEPT !.ns[call.recv.base].uxgrid.face_node_connectivity =
                                    SelectSeq(@, Kept)]
               ELSE k1]

\* One plotting call: the figure (or the error), and the kernel after it.
\* A uxarray plot may load its backend into HoloViews (libSelects).
PlotCall(call, k, libSelects) ==
    LET obj == EvalRecv(call.recv, k)
        fig == IF obj.t \in {"KeyError", "TypeError"} THEN obj
               ELSE CallPlot(obj, call.method, EvalKw(call, k), k)
    IN  [fig |-> fig,
         k |-> IF fig.t = "figure" /\ fig.api = "uxarray" /\ libSelects
               THEN [k EXCEPT !.hv = fig.backend] ELSE k]

(***************************************************************************)
(* Statements.  A statement that reads an unbound name raises NameError;   *)
(* a cell stops at the first statement that raises, keeping what the       *)
(* statements before it bound.                                             *)
(***************************************************************************)
Import(name, module) ==
    [op |-> "import", name |-> name, module |-> module, reads |-> {}]

Assign(name, value) ==
    [op |-> "assign", name |-> name, value |-> value, reads |-> {}]

\* name = base + suffix
Concat(name, base, suffix) ==
    [op |-> "concat", name |-> name, base |-> base, suffix |-> suffix,
     reads |-> {base}]

Display(name) == [op |-> "display", name |-> name, reads |-> {name}]

Call(base, attr, item, method, kw, kwfrom, reads) ==
    [recv |-> [base |-> base, attr |-> attr, item |-> item], method |-> method,
     kw |-> kw, kwfrom |-> kwfrom, reads |-> reads \cup {base}]

Plot(call) == [op |-> "plot", call |-> call, reads |-> call.reads]

\* (a + b).cols(1), with .opts(...) reading the names in reads
Layout(a, b, reads) ==
    [op |-> "layout", a |-> a, b |-> b, reads |-> a.reads \cup b.reads \cup reads]

Exec(st, k, d, libSelects) ==
    IF \E n \in st.reads : k.ns[n].t = "unbound" THEN Raise(k, "NameError")
    ELSE CASE st.op = "import" ->
                [k EXCEPT !.ns = Bind(k.ns, st.name :> Module(st.module))]
           [] st.op = "assign" ->
                [k EXCEPT !.ns = Bind(k.ns, st.name :> st.value)]
           [] st.op = "concat" ->
                [k EXCEPT !.ns = Bind(k.ns,
                    st.name :> StrVal(k.ns[st.base].v \o st.suffix))]
           [] st.op = "kwargs" ->
                [k EXCEPT !.ns = Bind(k.ns, st.name :>
                    [t |-> "dict",
                     v |-> [backend |-> st.backend, aspect |-> st.aspect,
                            fig_size |-> k.ns[st.fig_size].v]])]
           [] st.op = "open_grid" ->
                LET g == OpenGrid(d, k.ns[st.grid].v)
                IN  IF g.t # "Grid" THEN Raise(k, g.t)
                    ELSE [k EXCEPT !.ns = Bind(k.ns, st.name :> g)]
           [] st.op = "open_dataset" ->
                LET u == OpenDataset(d, k.ns[st.grid].v, k.ns[st.data].v)
                IN  IF u.t # "UxDataset" THEN Raise(k, u.t)
                    ELSE [k EXCEPT !.ns = Bind(k.ns, st.name :> u)]
           [] st.op = "xr_open_dataset" ->
                LET x == XrOpenDataset(d, k.ns[st.path].v)
                IN  IF x.t # "xr.Dataset" THEN Raise(k, x.t)
                    ELSE [k EXCEPT !.ns = Bind(k.ns, st.name :> x)]
           [] st.op = "display" -> k
           [] st.op = "subplots" ->
                [k EXCEPT !.ns = Bind(k.ns, "fig" :> Handle("Figure")
                                            @@ "axs" :> Handle("Axes[2]"))]
           [] st.op = "hv_extension" -> [k EXCEPT !.hv = st.backend]
           [] st.op = "plot" ->
                LET r == PlotCall(st.call, k, libSelects)
                IN  IF r.fig.t # "figure" THEN Raise(r.k, r.fig.t)
                    ELSE [r.k EXCEPT !.figs = Append(@, r.fig)]
           [] st.op = "layout" ->
                LET ra == PlotCall(st.a, k, libSelects)
                    rb == PlotCall(st.b, ra.k, libSelects)
                IN  IF ra.fig.t # "figure" THEN Raise(ra.k, ra.fig.t)
                    ELSE IF rb.fig.t # "figure" THEN Raise(rb.k, rb.fig.t)
                    ELSE [rb.k EXCEPT !.figs = Append(@,
                            [t |-> "figure", api |-> "holoviews",
                             kind |-> "layout", cols |-> 1,
                             parts |-> <<ra.fig, rb.fig>>])]

\* A cell: its statements in order, up to the first that raises.
RECURSIVE RunStmts(_, _, _, _)
RunStmts(stmts, k, d, libSelects) ==
    IF stmts = <<>> \/ k.err # "none" THEN k
    ELSE RunStmts(Tail(stmts), Exec(Head(stmts), k, d, libSelects), d, libSelects)

OpenGridStmt(name, grid) ==
    [op |-> "open_grid", name |-> name, grid |-> grid, reads |-> {"ux", grid}]

OpenDatasetStmt(name, grid, data) ==
    [op |-> "open_dataset", name |-> name, grid |-> grid, data |-> data,
     reads |-> {"ux", grid, data}]

XrOpenDatasetStmt(name, path) ==
    [op |-> "xr_open_dataset", name |-> name, path |-> path, reads |-> {"xr", path}]

\* name = {"backend": backend, "aspect": aspect, "fig_size": fig_size}
Kwargs(name, backend, aspect, fig_size) ==
    [op |-> "kwargs", name |-> name, backend |-> backend, aspect |-> aspect,
     fig_size |-> fig_size, reads |-> {fig_size}]

\* fig, axs = plt.subplots(nrows=2, ...)
Subplots == [op |-> "subplots", reads |-> {"plt"}]

\* hv.extension(backend)
HvExtension(backend) == [op |-> "hv_extension", backend |-> backend, reads |-> {"hv"}]

MplKw(title) ==
    [title |-> title, backend |-> "matplotlib", aspect |-> 2, fig_size |-> 500]

\* The last cell with its call live: uxds.plot()
LiveDatasetPlotCell == <<Plot(Call("uxds", "", "", "plot", <<>>, "", {}))>>

\* The last cell of the Plotting API notebook: "# uxds.plot()", a comment
CommentedDatasetPlotCell == <<>>

(***************************************************************************)
(* The code cells of the Plotting API notebook (part_001).  Its last cell  *)
(* holds only the comment "# uxds.plot()".                                 *)
(***************************************************************************)
PlotApiCells ==
    << <<Import("ux", "uxarray")>>,
       <<Assign("base_path", StrVal("../../meshfiles/")),
         Concat("grid_filename", "base_path", "oQU480.grid.nc"),
         Concat("data_filename", "base_path", "oQU480.data.nc")>>,
       <<OpenGridStmt("grid", "grid_filename"), Display("grid")>>,
       <<OpenDatasetStmt("uxds", "grid_filename", "data_filename"),
         Display("uxds")>>,
       <<Plot(Call("grid", "", "", "plot",
                   [title |-> "Default Grid Plot"], "", {}))>>,
       <<Plot(Call("grid", "", "", "plot",
                   MplKw("Default Grid Plot with Matplotlib"), "", {}))>>,
       <<Plot(Call("grid", "", "", "plot.nodes", MplKw("Grid Node Plot"), "", {}))>>,
       <<Plot(Call("uxds", "uxgrid", "", "plot",
                   MplKw("Grid plot through uxgrid attribute"), "", {}))>>,
       <<Plot(Call("uxds", "", "bottomDepth", "plot",
                   MplKw("Default UxDataArray Plot"), "", {}))>>,
       <<Plot(Call("uxds", "", "bottomDepth", "plot.polygons",
                   [exclude_antimeridian |-> FALSE] @@ MplKw("Vector Polygon Plot"),
                   "", {}))>>,
       CommentedDatasetPlotCell >>

(***************************************************************************)
(* The code cells of 01-plot-api.ipynb.  Its last cell calls uxds.plot().  *)
(***************************************************************************)
PlotApiV1Cells ==
    << <<Import("ux", "uxarray")>>,
       <<Assign("file_dir", StrVal("../../meshfiles/")),
         Concat("grid_filename", "file_dir", "oQU480.grid.nc"),
         Concat("data_filename", "file_dir", "oQU480.data.nc")>>,
       <<OpenGridStmt("grid", "grid_filename"),
         OpenDatasetStmt("uxds", "grid_filename", "data_filename")>>,
       <<Plot(Call("grid", "", "", "plot",
                   [title |-> "Default Grid Plot"], "", {}))>>,
       <<Plot(Call("grid", "", "", "plot.nodes",
                   [title |-> "Grid Node Plot"], "", {}))>>,
       <<Plot(Call("uxds", "", "bottomDepth", "plot",
                   [title |-> "Default UxDataArray Plot"], "", {}))>>,
       <<Plot(Call("uxds", "", "bottomDepth", "plot.points",
                   [title |-> "UxDataArray Point Plot"], "", {}))>>,
       <<Plot(Call("uxds", "", "", "plot", <<>>, "", {}))>> >>

(***************************************************************************)
(* The code cells of 002-xarray-to-uxarray.ipynb.                          *)
(***************************************************************************)
PsiKw(cmap) == [width |-> 1000, height |-> 500, cmap |-> cmap]

\* xrds.hvplot(...) + uxds["psi"].plot(...), in one column
CombinedLayout ==
    Layout(Call("xrds", "", "", "hvplot",
                [title |-> "Xarray with hvPlot"] @@ PsiKw("inferno"), "", {}),
           Call("uxds", "", "psi", "plot",
                [title |-> "UXarray Plot", exclude_antimeridian |-> FALSE]
                   @@ PsiKw("inferno"), "", {}),
           {})


\* The last cell without its own hv.extension("bokeh").
CombinedPlotCellNoExtension == <<CombinedLayout>>

\* The last cell selects bokeh itself before it plots.
CombinedPlotCell == <<HvExtension("bokeh"), CombinedLayout>>

\* The cell of the plot arguments with its two lines exchanged.
PlotKwargsCellSwapped ==
    <<Kwargs("plot_kwargs", "matplotlib", 2, "fig_size"),
      Assign("fig_size", IntVal(400))>>

\* fig_size = 400, then plot_kwargs = {..., "fig_size": fig_size}
PlotKwargsCell ==
    <<Assign("fig_size", IntVal(400)),
      Kwargs("plot_kwargs", "matplotlib", 2, "fig_size")>>

XarrayToUxarrayCells ==
    << <<Import("plt", "matplotlib.pyplot"), Import("ux", "uxarray"),
         Import("xr", "xarray")>>,
       PlotKwargsCell,
       <<Assign("base_path", StrVal("../../meshfiles/")),
         Concat("ds_path", "base_path", "outCSne30.structured.nc")>>,
       <<XrOpenDatasetStmt("xrds", "ds_path"), Display("xrds")>>,
       <<Assign("base_path", StrVal("../../meshfiles/")),
         Concat("grid_filename", "base_path", "outCSne30.grid.ug"),
         Concat("data_filename", "base_path", "outCSne30.data.nc")>>,
       <<OpenDatasetStmt("uxds", "grid_filename", "data_filename"),
         Display("uxds")>>,
       <<Plot(Call("xrds", "", "psi", "plot",
                   [figsize |-> <<12, 5>>, cmap |-> "inferno"], "", {}))>>,
       <<Subplots,
         Plot(Call("xrds", "", "psi", "plot",
                   [cmap |-> "inferno", ax |-> 0], "", {"axs"})),
         Plot(Call("xrds", "", "psi", "plot",
                   [cmap |-> "cividis", ax |-> 1], "", {"axs"}))>>,
       <<Plot(Call("uxds", "", "psi", "plot", PsiKw("inferno"), "", {}))>>,
       <<Plot(Call("uxds", "", "psi", "plot",
                   [exclude_antimeridian |-> FALSE] @@ PsiKw("inferno"), "", {}))>>,
       <<Layout(Call("uxds", "", "psi", "plot",
                     [cmap |-> "inferno", exclude_antimeridian |-> FALSE],
                     "plot_kwargs", {"plot_kwargs"}),
                Call("uxds", "", "psi", "plot",
                     [cmap |-> "cividis", exclude_antimeridian |-> FALSE],
                     "plot_kwargs", {"plot_kwargs"}),
                {"fig_size"})>>,
       <<Import("hv", "holoviews"), Import("hvplot", "hvplot.xarray"),
         HvExtension("bokeh")>>,
       CombinedPlotCell >>

Notebooks == {"overview", "plot_api", "plot_api_v1", "xarray_to_uxarray"}

Cells(n) ==
    CASE n = "plot_api" -> PlotApiCells
      [] n = "plot_api_v1" -> PlotApiV1Cells
      [] n = "xarray_to_uxarray" -> XarrayToUxarrayCells

NumCells(n) == IF n = "overview" THEN 2 ELSE Len(Cells(n))

Names(n) ==
    CASE n = "overview" ->
            {"ccrs", "plt", "mtri", "np", "xr", "lat_range", "lon_range",
             "num_lat_points", "num_lon_points", "lats", "lons", "lons_grid",
             "lats_grid", "temperature_data", "ds", "fig", "ax", "cs", "cbar",
             "num_points", "latitudes", "longitudes", "temperatures", "triang",
             "triang_data", "sc"}
      [] n = "plot_api" ->
            {"ux", "base_path", "grid_filename", "data_filename", "grid", "uxds"}
      [] n = "plot_api_v1" ->
            {"ux", "file_dir", "grid_filename", "data_filename", "grid", "uxds"}
      [] n = "xarray_to_uxarray" ->
            {"plt", "ux", "xr", "fig_size", "plot_kwargs", "base_path", "ds_path",
             "xrds", "grid_filename", "data_filename", "uxds", "fig", "axs",
             "hv", "hvplot"}

\* The meshfiles directory: a mesh and data files of nvars variables over it.
Disk(mesh, nvars) ==
    "../../meshfiles/oQU480.grid.nc" :> GridFile(mesh)
    @@ "../../meshfiles/oQU480.data.nc" :> DataFile(mesh, "bottomDepth", nvars)
    @@ "../../meshfiles/outCSne30.grid.ug" :> GridFile(mesh)
    @@ "../../meshfiles/outCSne30.data.nc" :> DataFile(mesh, "psi", nvars)
    @@ "../../meshfiles/outCSne30.structured.nc" :> StructuredFile

(***************************************************************************)
(* The kernel.  A fresh kernel has nothing bound, no HoloViews backend     *)
(* loaded and numpy's generator seeded from the system.  Cells are run one *)
(* at a time, in any order; topDown records that the cells run so far are  *)
(* the first ones of the notebook, in order, and that none has raised.     *)
(***************************************************************************)
Init ==
    /\ nb \in Notebooks
    /\ \/ /\ nb = "overview"
          /\ params \in [num_lat_points : 1..MaxLatPoints,
                         num_lon_points : 1..MaxLonPoints,
                         num_points : 3..MaxPoints,
                         libSelects : {FALSE}]
          /\ rng \in 0..(RngMod - 1)
          /\ disk = Disk(SquareMesh, 1)
       \/ /\ nb # "overview"
          /\ params \in [num_lat_points : {1}, num_lon_points : {1},
                         num_points : {3}, libSelects : BOOLEAN]
          /\ rng = 0
          /\ \E mesh \in SampleMeshes, nvars \in 1..MaxVars :
                disk = Disk(mesh, nvars)
    /\ ns = [n \in Names(nb) |-> Unbound]
    /\ hvBackend = "none"
    /\ hvBefore = "none"
    /\ last = 0
    /\ out = <<>>
    /\ err = "none"
    /\ topDown = TRUE

\* Finish that saves the displayed figures to a file.
FinishSavingFigures(c, k) ==
    /\ ns' = k.ns
    /\ rng' = k.rng
    /\ hvBackend' = k.hv
    /\ hvBefore' = hvBackend
    /\ out' = k.figs
    /\ err' = k.err
    /\ last' = c
    /\ topDown' = (topDown /\ c = last + 1 /\ err = "none")
    /\ disk' = IF k.figs = <<>> THEN disk
               ELSE ("figure.png" :> [kind |-> "image"]) @@ disk
    /\ UNCHANGED <<nb, params>>

\* The kernel after a cell, taken over as the new state.
Finish(c, k) ==
    /\ ns' = k.ns
    /\ rng' = k.rng
    /\ hvBackend' = k.hv
    /\ hvBefore' = hvBackend
    /\ out' = k.figs
    /\ err' = k.err
    /\ last' = c
    /\ topDown' = (topDown /\ c = last + 1 /\ err = "none")
    /\ UNCHANGED <<nb, params, disk>>

RunStructuredCell ==
    /\ nb = "overview"
    /\ Finish(1, StructuredCell(Kernel(ns, rng, hvBackend), params))

RunUnstructuredCell ==
    /\ nb = "overview"
    /\ Finish(2, UnstructuredCell(Kernel(ns, rng, hvBackend), params))

RunCell(c) ==
    /\ nb # "overview"
    /\ c \in 1..NumCells(nb)
    /\ Finish(c, RunStmts(Cells(nb)[c], Kernel(ns, rng, hvBackend), disk,
                          params.libSelects))

Next ==
    \/ RunStructuredCell
    \/ RunUnstructuredCell
    \/ \E c \in 1..13 : RunCell(c)

Spec == Init /\ [][Next]_vars

(***************************************************************************)
(* Properties.                                                             *)
(***************************************************************************)
Bound(n) == n \in DOMAIN ns /\ ns[n].t # "unbound"

\* The cell of 01-plot-api.ipynb that calls uxds.plot() was the last to run.
InvokedDatasetPlot == nb = "plot_api_v1" /\ last = Len(PlotApiV1Cells)

\* The cell holding grid.plot(title="Default Grid Plot").
DefaultGridPlotCell(n) == IF n = "plot_api" THEN 5 ELSE 4

C2_TemperatureShape ==
    (nb = "overview" /\ ns["temperature_data"].t = "ndarray")
        => /\ Len(ns["temperature_data"].v) = params.num_lat_points
           /\ \A i \in 1..Len(ns["temperature_data"].v) :
                 Len(ns["temperature_data"].v[i]) = params.num_lon_points

C2_Witness ==
    /\ nb = "overview" /\ last = 1 /\ err = "none"
    /\ params.num_lat_points = 1 /\ params.num_lon_points > 1
    /\ Shape2D(ns["temperature_data"].v) = <<1, params.num_lon_points>>

\* C3: the triangulation's nodes are the scattered points given, element by
\* element and in the same order: x the longitudes, y the latitudes.
C3_TriangulationNodes ==
    (nb = "overview" /\ ns["triang"].t = "Triangulation")
        => /\ ns["triang"].x = ns["longitudes"].v
           /\ ns["triang"].y = ns["latitudes"].v
           /\ Len(ns["triang"].x) = params.num_points
           /\ Len(ns["triang"].y) = params.num_points

C3_Witness ==
    /\ nb = "overview" /\ last = 2 /\ err = "none"
    /\ params.num_points > 3
    /\ ns["triang"].triangles # {}
    /\ ns["triang"].x = ns["longitudes"].v
    /\ ns["triang"].x # ns["triang"].y

\* C4: a Grid opened with open_grid renders its default plot, the borders
\* of its faces, whether or not a dataset has been loaded.
C4_GridPlotsWithoutData ==
    (nb \in {"plot_api", "plot_api_v1"} /\ last = DefaultGridPlotCell(nb)
     /\ Bound("grid"))
        => /\ err = "none"
           /\ Len(out) = 1
           /\ out[1].kind = "grid.borders"
           /\ out[1].grid = ns["grid"]

C4_Witness ==
    /\ nb = "plot_api" /\ last = DefaultGridPlotCell(nb)
    /\ Bound("grid") /\ ~Bound("uxds")
    /\ err = "none" /\ Len(out) = 1

\* C6: every node index a triangle refers to is a node of the example
\* (0 <= index < num_points) and the temperatures hold one value per node;
\* in a loaded dataset every face refers to nodes of the grid and every
\* variable holds one value per element it is mapped to.
C6_ConnectivityResolves ==
    /\ (nb = "overview" /\ ns["triang"].t = "Triangulation")
        => /\ \A tri \in ns["triang"].triangles : \A i \in 1..3 :
                 0 <= tri[i] /\ tri[i] < params.num_points
           /\ Len(ns["temperatures"].v) = params.num_points
           /\ ns["temperature_data"].t = "DataArray"
                 => Len(ns["temperature_data"].data) = params.num_points
    /\ (nb # "overview" /\ Bound("uxds"))
        => LET g == ns["uxds"].uxgrid
               conn == g.face_node_connectivity
               count(e) == CASE e = "nodes" -> Len(g.node_lon)
                             [] e = "faces" -> Len(conn)
                             [] e = "edges" -> Cardinality(EdgesOf(conn))
           IN  /\ \A f \in 1..Len(conn) : \A i \in 1..Len(conn[f]) :
                     0 <= conn[f][i] /\ conn[f][i] < Len(g.node_lon)
               /\ \A v \in 1..Len(ns["uxds"].vars) :
                     Len(ns["uxds"].vars[v].data) = count(ns["uxds"].vars[v].elem)

C6_Witness ==
    /\ nb = "overview" /\ last = 2
    /\ \E tri \in ns["triang"].triangles : tri[3] = params.num_points - 1
    /\ Len(ns["temperatures"].v) = params.num_points

\* C7: the structured cell completes, its temperature variable has the two
\* dimensions (lat, lon), as long as the latitude and the longitude axis,
\* and the mesh has a point, and the data a value, at every (i, j).
C7_DimensionsAlign ==
    (nb = "overview" /\ last = 1)
        => /\ err = "none"
           /\ ns["ds"].t = "Dataset"
           /\ LET lats == ns["ds"].vars["lat"].data
                  lons == ns["ds"].vars["lon"].data
                  T == ns["ds"].vars["temperature"]
              IN  /\ T.dims = <<"lat", "lon">>
                  /\ Len(lats) = params.num_lat_points
                  /\ Len(lons) = params.num_lon_points
                  /\ Len(T.data) = Len(lats)
                  /\ \A i \in 1..Len(lats) :
                        /\ Len(T.data[i]) = Len(lons)
                        /\ Len(ns["lats_grid"].v[i]) = Len(lons)
                        /\ Len(ns["lons_grid"].v[i]) = Len(lons)
                        /\ \A j \in 1..Len(lons) :
                              /\ ns["lats_grid"].v[i][j] = lats[i]
                              /\ ns["lons_grid"].v[i][j] = lons[j]
                  /\ Len(ns["lats_grid"].v) = Len(lats)
                  /\ Len(ns["lons_grid"].v) = Len(lats)

C7_Witness ==
    /\ nb = "overview" /\ last = 1 /\ err = "none"
    /\ params.num_lat_points = 2 /\ params.num_lon_points = 3
    /\ ns["ds"].sizes["lat"] = 2 /\ ns["ds"].sizes["lon"] = 3

C9_LoadedDataReadOnly ==
    [][ /\ disk' = disk
        /\ \A n \in {"grid", "uxds", "xrds"} :
              Bound(n) => ns'[n] = ns[n] ]_vars

C9_Witness ==
    /\ nb = "xarray_to_uxarray" /\ last = 9 /\ err = "none"
    /\ Bound("uxds") /\ Bound("xrds")
    /\ AntimeridianFaces(ns["uxds"].uxgrid) # {}
    /\ out[1].faces # FaceIndices(ns["uxds"].uxgrid)

\* The kernel after the first c cells of notebook n, run in order on a
\* fresh kernel.
RECURSIVE TopDownKernel(_, _)
TopDownKernel(n, c) ==
    IF c = 0 THEN Kernel([x \in Names(n) |-> Unbound], 0, "none")
    ELSE LET prev == TopDownKernel(n, c - 1)
         IN  RunStmts(Cells(n)[c], Kernel(prev.ns, prev.rng, prev.hv), disk,
                      params.libSelects)

PolygonsCellShown ==
    /\ nb = "plot_api" /\ last = 10 /\ err = "none"
    /\ Len(out) = 1 /\ out[1].kind = "dataarray.polygons"

\* C11: the polygons call of the Plotting API notebook leaves out the
\* polygons that cross the antimeridian, as the text above the cell says.
C11_PolygonsExcludeAntimeridian ==
    PolygonsCellShown => out[1].faces \cap AntimeridianFaces(out[1].grid) = {}

\* C11, as the code has it: called with exclude_antimeridian=False, the
\* polygons call draws every face of the grid, the crossing ones included.
C11_PolygonsDrawEveryFace ==
    PolygonsCellShown => out[1].faces = FaceIndices(out[1].grid)

C11_Witness ==
    /\ PolygonsCellShown
    /\ AntimeridianFaces(out[1].grid) # {}
    /\ AntimeridianFaces(out[1].grid) \subseteq out[1].faces

C15_UxgridPlotIsGridPlot ==
    (nb = "plot_api" /\ last = 8 /\ err = "none")
        => LET direct == TopDownKernel(nb, 6).figs[1]
           IN  /\ out[1].kind = direct.kind
               /\ out[1].edges = direct.edges
               /\ out[1].grid.node_lon = direct.grid.node_lon
               /\ out[1].grid.node_lat = direct.grid.node_lat
               /\ Bound("grid") => out[1] = GridPlot(ns["grid"], out[1].kw)

C15_Witness ==
    /\ nb = "plot_api" /\ last = 8 /\ err = "none" /\ Bound("grid")
    /\ out[1].kind = "grid.borders" /\ out[1].edges # {}
    /\ out[1].kw.title = "Grid plot through uxgrid attribute"

\* C16: in a top-to-bottom run every name a cell reads has been bound by
\* that cell or by an earlier one: no cell stops on an unbound name or on
\* an accessor that a later import provides.
C16_NamesBoundTopDown ==
    (topDown /\ last > 0)
        => /\ err \notin {"NameError", "AttributeError"}
           /\ (nb # "overview" /\ err = "none")
                => \A j \in 1..Len(Cells(nb)[last]) :
                      \A n \in Cells(nb)[last][j].reads : Bound(n)

C16_Witness ==
    /\ nb = "xarray_to_uxarray" /\ topDown /\ err = "none"
    /\ last = Len(XarrayToUxarrayCells)
    /\ \A n \in {"xrds", "uxds", "plot_kwargs", "fig_size", "hv", "hvplot"} : Bound(n)

\* C17: run top to bottom, 01-plot-api.ipynb raises in its last cell, the
\* live uxds.plot(), and nowhere else, so every other cell has completed
\* by then; the Plotting API notebook, where the call is a comment, runs
\* top to bottom without any error.
C17_ErrorOnlyInLastCell ==
    (topDown /\ last > 0)
        => /\ nb = "plot_api" => err = "none"
           /\ nb = "plot_api_v1" =>
                /\ last < Len(PlotApiV1Cells) => err = "none"
                /\ last = Len(PlotApiV1Cells) => err = "ValueError" /\ out = <<>>

C17_Witness ==
    /\ nb = "plot_api_v1" /\ topDown /\ last = Len(PlotApiV1Cells)
    /\ err = "ValueError" /\ Bound("grid") /\ Bound("uxds")

\* The names of the overview notebook after one of its cells is run on a
\* fresh kernel whose generator is in state r.
FreshStructuredRun(r) ==
    StructuredCell(Kernel([x \in Names("overview") |-> Unbound], r, "none"),
                   params).ns

FreshUnstructuredRun(r) ==
    UnstructuredCell(Kernel([x \in Names("overview") |-> Unbound], r, "none"),
                     params).ns

\* C18: the unstructured cell, seeded with 42, yields the same latitudes,
\* longitudes, temperatures and triangulation as any other run of it,
\* whatever state the generator was in; the structured cell sets no seed:
\* every other run gives temperature data of the same shape, and some run
\* gives different values.
C18_SeededDeterministic ==
    nb = "overview"
        => /\ (last = 2 /\ err = "none")
                => \A r \in 0..(RngMod - 1) :
                      \A n \in {"latitudes", "longitudes", "temperatures", "triang"} :
                         FreshUnstructuredRun(r)[n] = ns[n]
           /\ (last = 1 /\ err = "none")
                => /\ \A r \in 0..(RngMod - 1) :
                        Shape2D(FreshStructuredRun(r)["temperature_data"].v)
                            = Shape2D(ns["temperature_data"].v)
                   /\ \E r \in 0..(RngMod - 1) :
                        FreshStructuredRun(r)["temperature_data"]
                            # ns["temperature_data"]

C18_Witness ==
    /\ nb = "overview" /\ topDown /\ last = 2 /\ err = "none"
    /\ Len(ns["latitudes"].v) = MaxPoints
    /\ ns["triang"].x = ns["longitudes"].v

\* All elements of a one-dimensional array lie in [low, high).
InHalfOpen(a, low, high) == \A i \in 1..Len(a) : low <= a[i] /\ a[i] < high

\* An axis made by np.linspace lies within its range, and for two or more
\* samples starts and ends on the ends of the range.
AxisInRange(axis, range) ==
    /\ \A i \in 1..Len(axis) : range[1] <= axis[i] /\ axis[i] <= range[2]
    /\ Len(axis) >= 2 => axis[1] = range[1] /\ axis[Len(axis)] = range[2]

\* C19: every sampled value lies in its declared range: the scattered
\* latitudes in [-90, 90), longitudes in [-180, 180) and temperatures in
\* [-30, 30); the structured axes within lat_range and lon_range, their
\* first and last coordinates on the ends of the range for two or more
\* samples; the structured temperatures in [20, 30).
C19_SamplesInRange ==
    nb = "overview"
        => /\ Bound("latitudes") =>
                /\ InHalfOpen(ns["latitudes"].v, -90, 90)
                /\ InHalfOpen(ns["longitudes"].v, -180, 180)
                /\ InHalfOpen(ns["temperatures"].v, -30, 30)
           /\ Bound("lats") =>
                /\ Len(ns["lats"].v) = params.num_lat_points
                /\ Len(ns["lons"].v) = params.num_lon_points
                /\ AxisInRange(ns["lats"].v, ns["lat_range"].v)
                /\ AxisInRange(ns["lons"].v, ns["lon_range"].v)
           /\ ns["temperature_data"].t = "ndarray" =>
                \A i \in 1..Len(ns["temperature_data"].v) :
                    InHalfOpen(ns["temperature_data"].v[i], 20, 30)

C19_Witness ==
    /\ nb = "overview" /\ last = 1 /\ err = "none"
    /\ Bound("latitudes") /\ Len(ns["latitudes"].v) = MaxPoints
    /\ params.num_lat_points >= 2 /\ params.num_lon_points >= 2
    /\ ns["lats"].v[1] = -90 /\ ns["lons"].v[params.num_lon_points] = 180
    /\ \E i \in 1..params.num_lat_points : ns["temperature_data"].v[i][1] = 20

============================================================================
